---- MODULE Spec2Model ----
(***************************************************************************)
(* Model of static/script.js: the submit handler of the chat form and      *)
(* appendMessage.  Strings are sequences of one-character strings, so that *)
(* trim, concatenation and prefixes are computed, not assumed.             *)
(***************************************************************************)
EXTENDS Integers, Sequences, FiniteSets, TLC

\* ------------------------------------------------------------------ bounds
MaxSubmits == 2     \* how many submit events of the form are explored
ClientHeight == 2   \* visible height of the conversation view, in layout units
RowHeight == 1      \* laid-out height of one message element

\* ----------------------------------------------------------------- strings
ErrorPrefix == <<"E", "r", "r", "o", "r", ":", " ">>
NotOkMessage == <<"N", "e", "t", "w", "o", "r", "k", " ", "r", "e", "s", "p", "o", "n", "s", "e", " ", "w", "a", "s", " ", "n", "o", "t", " ", "o", "k">>
FailedToFetch == <<"F", "a", "i", "l", "e", "d", " ", "t", "o", " ", "f", "e", "t", "c", "h">>
UnexpectedToken == <<"U", "n", "e", "x", "p", "e", "c", "t", "e", "d", " ", "t", "o", "k", "e", "n", " ", "<", " ", "i", "n", " ", "J", "S", "O", "N", " ", "a", "t", " ", "p", "o", "s", "i", "t", "i", "o", "n", " ", "0">>
NullRead == <<"C", "a", "n", "n", "o", "t", " ", "r", "e", "a", "d", " ", "p", "r", "o", "p", "e", "r", "t", "i", "e", "s", " ", "o", "f", " ", "n", "u", "l", "l", " ", "(", "r", "e", "a", "d", "i", "n", "g", " ", "'", "r", "e", "s", "p", "o", "n", "s", "e", "'", ")">>
BodyAborted == <<"n", "e", "t", "w", "o", "r", "k", " ", "e", "r", "r", "o", "r">>

\* Sample texts the user types and the backend answers.
Hi == <<"H", "i">>
HiPadded == <<" ", "H", "i", "\t">>
Spaces == <<" ", " ", " ">>
AB == <<"a", " ", "b">>
hello == <<"h", "e", "l", "l", "o">>
ErrReply == <<"E", "r", "r", "o", "r", ":", " ", "n", "o", "n", "e">>

InputSamples == {<<>>, Spaces, Hi, HiPadded, AB}
ReplySamples == {hello, ErrReply}

\* The white space String.prototype.trim removes (the part the samples use).
WhiteSpace == {" ", "\t", "\n"}

RECURSIVE TrimStart(_)
TrimStart(s) ==
    IF s # <<>> /\ Head(s) \in WhiteSpace THEN TrimStart(Tail(s)) ELSE s

RECURSIVE TrimEnd(_)
TrimEnd(s) ==
    IF s # <<>> /\ s[Len(s)] \in WhiteSpace
    THEN TrimEnd(SubSeq(s, 1, Len(s) - 1))
    ELSE s

Trim(s) == TrimEnd(TrimStart(s))

\* Variant: the guard of the handler lets every message through.
Truthy_Always(s) == TRUE

\* JavaScript truthiness of a string: only the empty string is falsy.
Truthy(s) == s # <<>>

\* --------------------------------------------------------- JavaScript values
Undefined == [t |-> "undefined"]
JSNull == [t |-> "null"]
Str(s) == [t |-> "string", s |-> s]
ResponseObject(r) == [t |-> "object", response |-> Str(r)]
DetailObject == [t |-> "object", detail |-> Str(NotOkMessage)]

\* Variant: the handler reads a property the reply does not have.
GetResponse_WrongField(data) ==
    IF "reply" \in DOMAIN data THEN data.reply ELSE Undefined

\* data.response: property read on a parsed JSON value (null is handled by
\* the caller, it throws).
GetResponse(data) ==
    IF "response" \in DOMAIN data THEN data.response ELSE Undefined

\* The textContent setter: null and undefined become the empty string.
ToTextContent(v) ==
    IF v.t = "string" THEN v.s ELSE <<>>

TypeError(m) == [name |-> "TypeError", message |-> m]
SyntaxError(m) == [name |-> "SyntaxError", message |-> m]
Error(m) == [name |-> "Error", message |-> m]

\* ------------------------------------------------------------- the network
Statuses == {200, 404, 500}
ResponseOk(status) == status >= 200 /\ status <= 299

\* What fetch rejects with when the transport fails (browser dependent text).
TransportErrors == {TypeError(FailedToFetch)}

\* Response bodies: JSON texts (by the value they parse to), a text that is
\* not JSON, and a body whose transfer breaks off.
NoBody == [wire |-> "none"]
JsonBody(v) == [wire |-> "json", value |-> v]
TextBody == [wire |-> "text"]
AbortedBody == [wire |-> "aborted"]
Bodies ==
    {JsonBody(ResponseObject(r)) : r \in ReplySamples}
        \cup {JsonBody(DetailObject), JsonBody(JSNull), TextBody, AbortedBody}

\* response.json(): settles with the parsed value or rejects.
ResponseJson(body) ==
    IF body.wire = "json" THEN [settled |-> "fulfilled", value |-> body.value]
    ELSE IF body.wire = "text"
         THEN [settled |-> "rejected", error |-> SyntaxError(UnexpectedToken)]
         ELSE [settled |-> "rejected", error |-> TypeError(BodyAborted)]

\* Variant: the body is built from the input field, which is cleared by then.
FetchRequest_FromInput(message) ==
    [url |-> "/chat", method |-> "POST", contentType |-> "application/json",
     body |-> JsonBody([t |-> "object", message |-> Str(<<>>)])]

\* JSON.stringify({ message: message }) and the fetch options.
FetchRequest(message) ==
    [url |-> "/chat", method |-> "POST", contentType |-> "application/json",
     body |-> JsonBody([t |-> "object", message |-> Str(message)])]

\* ---------------------------------------------------------------- the view
Max(a, b) == IF a >= b THEN a ELSE b
Min(a, b) == IF a <= b THEN a ELSE b

ScrollHeight(children) == Max(ClientHeight, Len(children) * RowHeight)
MaxScrollTop(children) == ScrollHeight(children) - ClientHeight
\* The scrollTop setter clamps to the scrollable range.
SetScrollTop(children, v) == Min(Max(v, 0), MaxScrollTop(children))

\* Variant: the new element replaces the content of the conversation.
AppendMessage_Replace(conv, sender, text) ==
    LET messageElement ==
            [className |-> sender \o "-message", textContent |-> ToTextContent(text)]
        children == <<messageElement>>
    IN  [children |-> children,
         scrollTop |-> SetScrollTop(children, ScrollHeight(children))]

\* Variant: the element is appended, the view is not scrolled.
AppendMessage_NoScroll(conv, sender, text) ==
    LET messageElement ==
            [className |-> sender \o "-message", textContent |-> ToTextContent(text)]
        children == Append(conv.children, messageElement)
    IN  [children |-> children, scrollTop |-> conv.scrollTop]

\* Variant: every element gets the class of a bot message.
AppendMessage_BotClass(conv, sender, text) ==
    LET messageElement ==
            [className |-> "bot-message", textContent |-> ToTextContent(text)]
        children == Append(conv.children, messageElement)
    IN  [children |-> children,
         scrollTop |-> SetScrollTop(children, ScrollHeight(children))]

AppendMessage(conv, sender, text) ==
    LET messageElement ==
            [className |-> sender \o "-message", textContent |-> ToTextContent(text)]
        children == Append(conv.children, messageElement)
    IN  [children |-> children,
         scrollTop |-> SetScrollTop(children, ScrollHeight(children))]

\* ------------------------------------------------------------------- state
VARIABLES
    input,          \* value of #message-input
    conversation,   \* #conversation: its child elements and scrollTop
    exch,           \* one record per call of the handler that reached fetch
    requests,       \* the requests handed to fetch, in order
    unhandled,      \* exchanges whose handler promise rejected
    nSubmits,       \* submit events so far
    nonEmptySubs,   \* submit events whose input held a non white space character
    appends,        \* for each child of #conversation, who appended it
    settledOrder    \* exchanges in the order their last await settled

vars == <<input, conversation, exch, requests, unhandled, nSubmits,
          nonEmptySubs, appends, settledOrder>>

Init ==
    /\ input = <<>>
    /\ conversation = [children |-> <<>>, scrollTop |-> 0]
    /\ exch = <<>>
    /\ requests = <<>>
    /\ unhandled = {}
    /\ nSubmits = 0
    /\ nonEmptySubs = 0
    /\ appends = <<>>
    /\ settledOrder = <<>>

\* ------------------------------------------------------------- environment
\* The user edits the input field.
Type(v) ==
    /\ v # input
    /\ input' = v
    /\ UNCHANGED <<conversation, exch, requests, unhandled, nSubmits,
                   nonEmptySubs, appends, settledOrder>>

\* Where the user puts the view: its top or its bottom.
ScrollStops(children) == {0, MaxScrollTop(children)}

\* The user scrolls the conversation view.
UserScroll(p) ==
    /\ p # conversation.scrollTop
    /\ conversation' = [conversation EXCEPT !.scrollTop = p]
    /\ UNCHANGED <<input, exch, requests, unhandled, nSubmits, nonEmptySubs,
                   appends, settledOrder>>

\* -------------------------------------------------------------- the handler
\* Variant: only leading white space is removed.
SubmitMessage_TrimStart(inputValue) == TrimStart(inputValue)

\* const message = input.value.trim();
SubmitMessage(inputValue) == Trim(inputValue)

\* Variant: a submission is dropped while an exchange is in flight.
Submit_Serialized ==
    /\ nSubmits < MaxSubmits
    /\ nSubmits' = nSubmits + 1
    /\ nonEmptySubs' =
           IF \E i \in DOMAIN input : input[i] \notin WhiteSpace
           THEN nonEmptySubs + 1 ELSE nonEmptySubs
    /\ LET message == SubmitMessage(input) IN
       IF Truthy(message) /\ \A e \in DOMAIN exch : exch[e].pc = "done"
       THEN /\ conversation' = AppendMessage(conversation, "user", Str(message))
            /\ input' = <<>>
            /\ requests' = Append(requests, FetchRequest(message))
            /\ exch' = Append(exch, [message |-> message, pc |-> "fetch",
                                     rejected |-> FALSE, status |-> 0,
                                     body |-> NoBody])
            /\ appends' = Append(appends, [x |-> Len(exch) + 1, phase |-> "sync"])
       ELSE UNCHANGED <<conversation, input, requests, exch, appends>>
    /\ UNCHANGED <<unhandled, settledOrder>>

\* The submit event: the handler runs up to its first await.
Submit ==
    /\ nSubmits < MaxSubmits
    /\ nSubmits' = nSubmits + 1
    /\ nonEmptySubs' =
           IF \E i \in DOMAIN input : input[i] \notin WhiteSpace
           THEN nonEmptySubs + 1 ELSE nonEmptySubs
    /\ LET message == SubmitMessage(input) IN
       IF Truthy(message)
       THEN /\ conversation' = AppendMessage(conversation, "user", Str(message))
            /\ input' = <<>>
            /\ requests' = Append(requests, FetchRequest(message))
            /\ exch' = Append(exch, [message |-> message, pc |-> "fetch",
                                     rejected |-> FALSE, status |-> 0,
                                     body |-> NoBody])
            /\ appends' = Append(appends, [x |-> Len(exch) + 1, phase |-> "sync"])
       ELSE UNCHANGED <<conversation, input, requests, exch, appends>>
    /\ UNCHANGED <<unhandled, settledOrder>>

\* Variant: the catch block throws the error on.
CatchBlock_Rethrow(conv, error) ==
    [conv |-> conv, fault |-> TRUE, phase |-> "catch"]

\* Variant: the catch block swallows the error and shows nothing.
CatchBlock_Silent(conv, error) ==
    [conv |-> conv, fault |-> FALSE, phase |-> "catch"]

\* catch (error) { appendMessage('bot', 'Error: ' + error.message); }
CatchBlock(conv, error) ==
    [conv |-> AppendMessage(conv, "bot", Str(ErrorPrefix \o error.message)),
     fault |-> FALSE, phase |-> "catch"]

\* Variant: the error thrown names the status.
AfterFetch_StatusText(conv, status) ==
    IF ~ResponseOk(status)
    THEN CatchBlock(conv, Error(IF status = 404
                                THEN <<"N", "o", "t", " ", "F", "o", "u", "n", "d">>
                                ELSE NotOkMessage))
    ELSE [conv |-> conv, fault |-> FALSE, phase |-> "await"]

\* The try block after fetch fulfilled: throw unless response.ok.
AfterFetch(conv, status) ==
    IF ~ResponseOk(status)
    THEN CatchBlock(conv, Error(NotOkMessage))
    ELSE [conv |-> conv, fault |-> FALSE, phase |-> "await"]

\* Variant: a reply without a response field is dropped without a message.
AfterJson_SkipEmpty(conv, res) ==
    IF res.settled = "rejected" THEN CatchBlock(conv, res.error)
    ELSE IF res.value.t = "null" THEN CatchBlock(conv, TypeError(NullRead))
    ELSE IF GetResponse(res.value) = Undefined
         THEN [conv |-> conv, fault |-> FALSE, phase |-> "try"]
    ELSE [conv |-> AppendMessage(conv, "bot", GetResponse(res.value)),
          fault |-> FALSE, phase |-> "try"]

\* The try block after response.json() settled.
AfterJson(conv, res) ==
    IF res.settled = "rejected" THEN CatchBlock(conv, res.error)
    ELSE IF res.value.t = "null" THEN CatchBlock(conv, TypeError(NullRead))
    ELSE [conv |-> AppendMessage(conv, "bot", GetResponse(res.value)),
          fault |-> FALSE, phase |-> "try"]

\* The handler of exchange e ran to its end with result r.
Finish(e, r) ==
    /\ conversation' = r.conv
    /\ unhandled' = IF r.fault THEN unhandled \cup {e} ELSE unhandled
    /\ appends' = IF Len(r.conv.children) > Len(conversation.children)
                  THEN Append(appends, [x |-> e, phase |-> r.phase])
                  ELSE appends
    /\ settledOrder' = Append(settledOrder, e)

\* Variant: a failed request is sent once more.
FetchReject_Retry(e, error) ==
    /\ e \in DOMAIN exch
    /\ exch[e].pc = "fetch"
    /\ exch' = [exch EXCEPT ![e].pc = "done", ![e].rejected = TRUE]
    /\ Finish(e, CatchBlock(conversation, error))
    /\ requests' = Append(requests, FetchRequest(exch[e].message))
    /\ UNCHANGED <<input, nSubmits, nonEmptySubs>>

\* fetch rejects: the transport failed.
FetchReject(e, error) ==
    /\ e \in DOMAIN exch
    /\ exch[e].pc = "fetch"
    /\ exch' = [exch EXCEPT ![e].pc = "done", ![e].rejected = TRUE]
    /\ Finish(e, CatchBlock(conversation, error))
    /\ UNCHANGED <<input, requests, nSubmits, nonEmptySubs>>

\* fetch fulfils with a response of the given status.
FetchResolve(e, status) ==
    /\ e \in DOMAIN exch
    /\ exch[e].pc = "fetch"
    /\ LET r == AfterFetch(conversation, status) IN
       IF r.phase = "await"
       THEN /\ exch' = [exch EXCEPT ![e].pc = "json", ![e].status = status]
            /\ UNCHANGED <<conversation, unhandled, appends, settledOrder>>
       ELSE /\ exch' = [exch EXCEPT ![e].pc = "done", ![e].status = status]
            /\ Finish(e, r)
    /\ UNCHANGED <<input, requests, nSubmits, nonEmptySubs>>

\* Variant: the input field is cleared again when the reply is rendered.
JsonSettle_ClearsInput(e, body) ==
    /\ e \in DOMAIN exch
    /\ exch[e].pc = "json"
    /\ exch' = [exch EXCEPT ![e].pc = "done", ![e].body = body]
    /\ Finish(e, AfterJson(conversation, ResponseJson(body)))
    /\ input' = <<>>
    /\ UNCHANGED <<requests, nSubmits, nonEmptySubs>>

\* response.json() settles once the body has arrived (or broken off).
JsonSettle(e, body) ==
    /\ e \in DOMAIN exch
    /\ exch[e].pc = "json"
    /\ exch' = [exch EXCEPT ![e].pc = "done", ![e].body = body]
    /\ Finish(e, AfterJson(conversation, ResponseJson(body)))
    /\ UNCHANGED <<input, requests, nSubmits, nonEmptySubs>>

\* Variant: a timer ends an exchange that still waits for fetch.
Timeout(e) ==
    /\ e \in DOMAIN exch
    /\ exch[e].pc = "fetch"
    /\ exch' = [exch EXCEPT ![e].pc = "done"]
    /\ Finish(e, CatchBlock(conversation, Error(<<"t", "i", "m", "e", "o", "u", "t">>)))
    /\ UNCHANGED <<input, requests, nSubmits, nonEmptySubs>>

Next_Timeout ==
    \/ \E v \in InputSamples : Type(v)
    \/ \E p \in ScrollStops(conversation.children) : UserScroll(p)
    \/ Submit
    \/ \E e \in 1..MaxSubmits, error \in TransportErrors : FetchReject(e, error)
    \/ \E e \in 1..MaxSubmits, status \in Statuses : FetchResolve(e, status)
    \/ \E e \in 1..MaxSubmits, body \in Bodies : JsonSettle(e, body)
    \/ \E e \in 1..MaxSubmits : Timeout(e)

Next ==
    \/ \E v \in InputSamples : Type(v)
    \/ \E p \in ScrollStops(conversation.children) : UserScroll(p)
    \/ Submit
    \/ \E e \in 1..MaxSubmits, error \in TransportErrors : FetchReject(e, error)
    \/ \E e \in 1..MaxSubmits, status \in Statuses : FetchResolve(e, status)
    \/ \E e \in 1..MaxSubmits, body \in Bodies : JsonSettle(e, body)

Spec == Init /\ [][Next]_vars

\* The await of exchange e that is pending settles, one way or the other.
Settle(e) ==
    \/ \E error \in TransportErrors : FetchReject(e, error)
    \/ \E status \in Statuses : FetchResolve(e, status)
    \/ \E body \in Bodies : JsonSettle(e, body)

\* The script where every network call made comes to an end: what fetch and
\* response.json() return settles.
FairSpec == Spec /\ \A e \in 1..MaxSubmits : WF_vars(Settle(e))

\* ------------------------------------------------------- notions of the claims
Children == conversation.children

UserMsg(t) == [className |-> "user-message", textContent |-> t]
BotMsg(t) == [className |-> "bot-message", textContent |-> t]

IsPrefix(p, t) == Len(p) <= Len(t) /\ SubSeq(t, 1, Len(p)) = p
StartsWithError(t) == IsPrefix(ErrorPrefix, t)

AllWhite(raw) == \A i \in DOMAIN raw : raw[i] \in WhiteSpace
HasVisibleChar(raw) == ~AllWhite(raw)

\* t is raw without its leading and trailing white space, stated without Trim.
IsTrimOf(t, raw) ==
    \E i \in 1..(Len(raw) + 1), j \in 0..Len(raw) :
        /\ t = SubSeq(raw, i, j)
        /\ \A k \in 1..(i - 1) : raw[k] \in WhiteSpace
        /\ \A k \in (j + 1)..Len(raw) : raw[k] \in WhiteSpace
        /\ t # <<>> => (t[1] \notin WhiteSpace /\ t[Len(t)] \notin WhiteSpace)

\* Steps, told apart by what they count.
SubmitStep == nSubmits' = nSubmits + 1
ResumeStep == nSubmits' = nSubmits /\ exch' # exch
Appended == Len(Children') > Len(Children)

\* Places in the conversation of the elements exchange e appended.
PlacesOf(e) == {i \in DOMAIN appends : appends[i].x = e /\ i \in DOMAIN Children}
UserPlacesOf(e) == {i \in PlacesOf(e) : Children[i].className = "user-message"}
BotPlacesOf(e) == {i \in PlacesOf(e) : Children[i].className = "bot-message"}

InFlight(e) == exch[e].pc # "done"
GotReply(e, r) ==
    /\ exch[e].pc = "done"
    /\ ResponseOk(exch[e].status)
    /\ exch[e].body = JsonBody(ResponseObject(r))
FailedStatus(e) ==
    exch[e].pc = "done" /\ exch[e].status # 0 /\ ~ResponseOk(exch[e].status)
FailedTransport(e) ==
    exch[e].pc = "done" /\ (exch[e].rejected \/ exch[e].body = AbortedBody)

\* ------------------------------------------------------------------ claims

\* C1: a submission whose input is non-empty after trimming appends exactly one
\* user message whose text is the trimmed input, and the exchange it starts is
\* still waiting for fetch when the message is in the conversation; no
\* exchange ever has another user message.
C1_UserMessageBeforeReply ==
    /\ [][(SubmitStep /\ HasVisibleChar(input)) =>
            /\ \E i \in 1..(Len(input) + 1), j \in 0..Len(input) :
                   /\ IsTrimOf(SubSeq(input, i, j), input)
                   /\ Children' = Append(Children, UserMsg(SubSeq(input, i, j)))
            /\ Len(exch') = Len(exch) + 1
            /\ exch'[Len(exch')].pc = "fetch"]_vars
    /\ [](\A e \in DOMAIN exch :
            /\ Cardinality(UserPlacesOf(e)) = 1
            /\ \A i \in UserPlacesOf(e) :
                   Children[i].textContent = exch[e].message)

C1_Witness ==
    \E e \in DOMAIN exch :
        /\ exch[e].pc = "fetch"
        /\ exch[e].message = Hi
        /\ Children[Len(Children)] = UserMsg(Hi)
        /\ Len(Children) = 3

\* C2: a submission whose input is empty or only white space changes neither
\* the conversation nor the requests nor the input field, whatever is in flight.
C2_BlankSubmitIsNoOp ==
    [][(SubmitStep /\ AllWhite(input)) =>
          UNCHANGED <<conversation, requests, input, exch>>]_vars

C2_Witness ==
    /\ nSubmits > nonEmptySubs
    /\ input = Spaces
    /\ \E e \in DOMAIN exch : InFlight(e)
    /\ Len(requests) = 1

C4_FailureRendered ==
    /\ unhandled = {}
    /\ \A e \in DOMAIN exch :
           (FailedStatus(e) \/ FailedTransport(e)) =>
               /\ Cardinality(BotPlacesOf(e)) = 1
               /\ \A i \in BotPlacesOf(e) :
                      StartsWithError(Children[i].textContent)

C4_Witness ==
    /\ \E e \in DOMAIN exch :
           FailedStatus(e) /\ \E i \in BotPlacesOf(e) :
               Children[i] = BotMsg(ErrorPrefix \o NotOkMessage)
    /\ \E e \in DOMAIN exch :
           exch[e].rejected /\ \E i \in BotPlacesOf(e) :
               Children[i] = BotMsg(ErrorPrefix \o FailedToFetch)

\* C5: a success status with a malformed body (not JSON, or JSON without a
\* response field) ends in a bot message that starts with "Error: ".
MalformedBodies == {TextBody, JsonBody(DetailObject), JsonBody(JSNull)}

C5_MalformedBodyIsFailure ==
    \A e \in DOMAIN exch :
        (exch[e].pc = "done" /\ ResponseOk(exch[e].status)
            /\ exch[e].body \in MalformedBodies) =>
                /\ BotPlacesOf(e) # {}
                /\ \A i \in BotPlacesOf(e) :
                       StartsWithError(Children[i].textContent)

\* C6: every step leaves the children of the conversation as they are or adds
\* one element at the end.
C6_AppendOnly ==
    [][\/ Children' = Children
       \/ /\ Len(Children') = Len(Children) + 1
          /\ SubSeq(Children', 1, Len(Children)) = Children]_vars

C6_Witness ==
    /\ Len(Children) = 4
    /\ Children[1] = UserMsg(Hi)
    /\ Children[2] = UserMsg(AB)

\* C7: a non-empty submission made while an exchange is in flight starts its
\* own request, and the bot messages stand in the order in which the exchanges
\* settled (their last await: fetch, or response.json() after it).
BotOrder == SelectSeq(appends, LAMBDA a : a.phase # "sync")

C7_NotSerialized ==
    /\ [][(SubmitStep /\ HasVisibleChar(input)
             /\ \E e \in DOMAIN exch : InFlight(e)) =>
            /\ Len(requests') = Len(requests) + 1
            /\ Len(exch') = Len(exch) + 1
            /\ exch'[Len(exch')].pc = "fetch"]_vars
    /\ [](/\ Len(BotOrder) = Len(settledOrder)
          /\ \A k \in DOMAIN BotOrder : BotOrder[k].x = settledOrder[k]
          /\ \A e \in DOMAIN exch : \A i \in BotPlacesOf(e) :
                 appends[i].phase # "sync")

\* The reply to the second submission stands before the reply to the first.
C7_Witness ==
    /\ Len(exch) = 2
    /\ settledOrder = <<2, 1>>
    /\ \E i \in BotPlacesOf(2), j \in BotPlacesOf(1) : i < j
    /\ GotReply(1, hello) /\ GotReply(2, hello)

\* C8 as stated: only the code after an await appends to the conversation.
C8_OnlyResumptionAppends ==
    [][Appended => ResumeStep]_vars

\* C8 amended: the synchronous part of the handler appends the user message
\* and nothing else; the code after an await appends the bot message and
\* nothing else; nothing else appends.
C8_WhoAppends ==
    [][Appended =>
          /\ Len(Children') = Len(Children) + 1
          /\ \/ SubmitStep /\ Children'[Len(Children')].className = "user-message"
             \/ ResumeStep /\ Children'[Len(Children')].className = "bot-message"]_vars

C8_Witness ==
    /\ Len(Children) = 2
    /\ Children[1].className = "user-message"
    /\ Children[2].className = "user-message"
    /\ \A e \in DOMAIN exch : exch[e].pc = "fetch"

\* C9: the number of requests handed to fetch equals the number of submissions
\* whose input held something other than white space, failed exchanges included.
C9_OneRequestPerSubmission ==
    Len(requests) = nonEmptySubs

C9_Witness ==
    /\ Len(requests) = 2
    /\ nonEmptySubs = 2
    /\ \A e \in DOMAIN exch : FailedStatus(e) \/ FailedTransport(e)

\* C10: after a step that appends, scrollTop is the largest value the view can
\* scroll to, scrollHeight - clientHeight.
C10_ScrolledToEnd ==
    [][Appended =>
          conversation'.scrollTop
              = ScrollHeight(Children') - ClientHeight]_vars

C10_Witness ==
    /\ Len(Children) = 4
    /\ conversation.scrollTop = ScrollHeight(Children) - ClientHeight
    /\ conversation.scrollTop > 0

\* C11: when every network call settles, every exchange comes to have exactly
\* one bot message; no exchange ever has more than one, and the user message
\* of an exchange stands before its bot message.
C11_EveryExchangeAnswered ==
    /\ \A e \in 1..MaxSubmits :
           (e \in DOMAIN exch) ~> (Cardinality(BotPlacesOf(e)) = 1)
    /\ [](\A e \in DOMAIN exch :
            /\ Cardinality(BotPlacesOf(e)) <= 1
            /\ \A i \in UserPlacesOf(e), j \in BotPlacesOf(e) : i < j)

C11_Witness ==
    /\ Len(exch) = 2
    /\ \A e \in DOMAIN exch :
           /\ exch[e].pc = "done"
           /\ Cardinality(BotPlacesOf(e)) = 1
           /\ \A i \in UserPlacesOf(e), j \in BotPlacesOf(e) : i < j
    /\ Children[1].className = "user-message"
    /\ Children[2].className = "user-message"
    /\ exch[1].rejected /\ GotReply(2, hello)

\* C12: an exchange whose network call has not settled has no bot message;
\* it leaves its wait only by an outcome of the network (fetch rejected, a
\* status arrived, the body arrived or broke off), never by a timer; and while
\* it waits, a further submission can be made and every other waiting
\* exchange can settle.
C12_NoTimeout ==
    /\ [](\A e \in DOMAIN exch : InFlight(e) =>
            /\ BotPlacesOf(e) = {}
            /\ nSubmits < MaxSubmits => ENABLED Submit
            /\ \A f \in DOMAIN exch : InFlight(f) => ENABLED Settle(f))
    /\ [][\A e \in DOMAIN exch :
            (InFlight(e) /\ exch'[e] # exch[e]) =>
                \/ exch[e].pc = "fetch"
                     /\ (exch'[e].rejected \/ exch'[e].status # 0)
                \/ exch[e].pc = "json" /\ exch'[e].body # NoBody]_vars

\* The first exchange still waits, the second one was made and answered.
C12_Witness ==
    /\ Len(exch) = 2
    /\ exch[1].pc = "fetch"
    /\ BotPlacesOf(1) = {}
    /\ GotReply(2, hello)
    /\ Children[3] = BotMsg(hello)

\* The message a request body carries, as the backend reads it.
MessageOf(request) == request.body.value.message.s

\* C13: the request of an exchange is a POST to /chat with a JSON body whose
\* message is the trimmed text of its submission, the text of the user message
\* of that exchange; requests once made never change, whatever is typed or
\* submitted later.
C13_RequestCarriesMessage ==
    /\ [](/\ Len(requests) = Len(exch)
          /\ \A e \in DOMAIN exch :
                 /\ requests[e].url = "/chat"
                 /\ requests[e].method = "POST"
                 /\ requests[e].contentType = "application/json"
                 /\ requests[e].body.wire = "json"
                 /\ DOMAIN requests[e].body.value = {"t", "message"}
                 /\ MessageOf(requests[e]) = exch[e].message
                 /\ \A i \in UserPlacesOf(e) :
                        Children[i].textContent = MessageOf(requests[e]))
    /\ [][/\ SubSeq(requests', 1, Len(requests)) = requests
          /\ (SubmitStep /\ HasVisibleChar(input)) =>
                 /\ Len(requests') = Len(requests) + 1
                 /\ IsTrimOf(MessageOf(requests'[Len(requests')]), input)]_vars

\* Two overlapping exchanges, each request with its own text, other text typed.
C13_Witness ==
    /\ Len(requests) = 2
    /\ MessageOf(requests[1]) = Hi
    /\ MessageOf(requests[2]) = AB
    /\ exch[1].pc = "fetch" /\ exch[2].pc = "fetch"
    /\ Children = <<UserMsg(Hi), UserMsg(AB)>>
    /\ input = HiPadded

\* C14: a submission with a visible character leaves the input field empty in
\* the state in which its request has been made; a blank submission and every
\* step after an await leave the input field as it is.
C14_InputClearedOnSubmitOnly ==
    [][/\ (SubmitStep /\ HasVisibleChar(input)) =>
              (input' = <<>> /\ Len(requests') = Len(requests) + 1)
       /\ (SubmitStep /\ AllWhite(input)) => input' = input
       /\ ResumeStep => input' = input]_vars

\* Both exchanges are over, one answered and one failed, and text stands in
\* the input field.
C14_Witness ==
    /\ Len(exch) = 2
    /\ GotReply(1, hello)
    /\ FailedStatus(2)
    /\ input = AB

\* How many of the first k children carry the given class.
CountClass(k, class) ==
    Cardinality({i \in 1..k : Children[i].className = class})

\* C15: there are never more bot messages than user messages, the difference
\* is the number of exchanges still waiting for the network, and every prefix
\* of the conversation has at least as many user messages as bot messages.
C15_BotsNeverOutnumberUsers ==
    /\ CountClass(Len(Children), "bot-message")
           <= CountClass(Len(Children), "user-message")
    /\ CountClass(Len(Children), "user-message")
           - CountClass(Len(Children), "bot-message")
           = Cardinality({e \in DOMAIN exch : InFlight(e)})
    /\ \A k \in 0..Len(Children) :
           CountClass(k, "user-message") >= CountClass(k, "bot-message")

\* Two user messages, one bot message, one exchange waiting.
C15_Witness ==
    /\ Len(Children) = 3
    /\ CountClass(3, "user-message") = 2
    /\ CountClass(3, "bot-message") = 1
    /\ Cardinality({e \in DOMAIN exch : InFlight(e)}) = 1
    /\ Children[3].className = "bot-message"

\* "Error: Network response was not ok", spelled out.
NotOkText ==
    <<"E", "r", "r", "o", "r", ":", " ", "N", "e", "t", "w", "o", "r", "k", " ",
      "r", "e", "s", "p", "o", "n", "s", "e", " ", "w", "a", "s", " ", "n", "o",
      "t", " ", "o", "k">>

\* C16: whatever the non-success status, the exchange has one bot message with
\* exactly the text "Error: Network response was not ok", and the handler ends
\* without response.json() having been called: no body was read.
C16_SameTextForEveryStatus ==
    \A e \in DOMAIN exch :
        FailedStatus(e) =>
            /\ Cardinality(BotPlacesOf(e)) = 1
            /\ \A i \in BotPlacesOf(e) : Children[i] = BotMsg(NotOkText)
            /\ exch[e].body = NoBody

\* One exchange got 404 and one got 500; their bot messages are the same.
C16_Witness ==
    /\ Len(exch) = 2
    /\ exch[1].pc = "done" /\ exch[1].status = 404
    /\ exch[2].pc = "done" /\ exch[2].status = 500
    /\ \E i \in BotPlacesOf(1), j \in BotPlacesOf(2) :
           Children[i] = Children[j] /\ Children[i] = BotMsg(NotOkText)

====
